---- MODULE Spec2Model ----
(***************************************************************************)
(* Model of bin/boinc2docker_create_work.py: one call of                   *)
(* boinc2docker_create_work is a straight-line sequence of external        *)
(* commands (docker, tar, gzip, ssh-keygen, rm) and in-memory steps.       *)
(* The state is the position in the function, its local variables, the    *)
(* caller's argument objects (Python passes lists and dicts by reference), *)
(* the download hierarchy and the scratch directories on disk.             *)
(* memory_check and escape_string are pure and are modelled as operators.  *)
(***************************************************************************)
EXTENDS Integers, Sequences, FiniteSets, TLC

\* ---- bounds of the model ----
MaxRuns == 2
NLayers == 2
MaxExtra == 1
MaxImageSize == 3
MemSpan == 20
MaxStrLen == 3
MaxToks == 2
MaxTokLen == 1

None == "None"
\* Python's None for the optional memory argument (megabytes, never negative)
NoMemory == 0 - 1

VARIABLES
    pc,          \* position inside boinc2docker_create_work, "idle" before the first call
    run,         \* number of calls made so far
    caller,      \* what the calling program passes on each of its calls
    args,        \* the arguments of the current call
    loc,         \* the local variables of the current call
    heap,        \* the mutable list/dict objects reachable from the caller or the call
    dl,          \* files present in the download hierarchy
    tmpdirs,     \* scratch directories of the current call present on disk
    log,         \* external commands issued by the current call, in order, with outcome
    pending,     \* the exception in flight when the try body was left
    ret,         \* how the last call ended
    submitted,   \* the arguments create_work received in the current call
    forced_seen, \* history: some call so far set force_reimport
    mc,          \* memory_check harness: input, result and message
    esc          \* escape harness: command, generated command line

vars == <<pc, run, caller, args, loc, heap, dl, tmpdirs, log, pending, ret, submitted,
          forced_seen, mc, esc>>

\* ------------------------------------------------------------------------
\* memory_check (pure)
\* ------------------------------------------------------------------------
memory_check_raise(imagesize, memory) ==
    LET need == 4 * imagesize + 500
    IN  IF memory = NoMemory THEN need
        ELSE IF memory < need THEN need
        ELSE memory

memory_check(imagesize, memory) ==
    LET need == 4 * imagesize + 500
    IN  IF memory = NoMemory THEN need
        ELSE IF memory < need THEN memory
        ELSE memory

\* the message memory_check prints when verbose
memory_check_message(imagesize, memory) ==
    LET need == 4 * imagesize + 500
    IN  IF memory = NoMemory THEN <<"auto", need>>
        ELSE IF memory < need THEN <<"warning", memory, need>>
        ELSE <<>>

\* ------------------------------------------------------------------------
\* file names and the download hierarchy
\* ------------------------------------------------------------------------
\* a file name is a stem followed by its suffixes
Filename(kind, id, ext) == [kind |-> kind, id |-> id, ext |-> ext]
AddSuffix(fn, suffix) == [fn EXCEPT !.ext = Append(@, suffix)]

\* dir_hier_path puts a file in the directory chosen by the hash of its name
dir_hier_path(fn) == [dir |-> fn, name |-> fn]
\* join(dirname(path), fn)
join_dirname(path, fn) == [dir |-> path.dir, name |-> fn]

image_filename_tar(image_id) == Filename("image", image_id, <<"tar">>)
image_filename(image_id, native_unzip) ==
    IF ~native_unzip THEN AddSuffix(image_filename_tar(image_id), "manual.gz")
    ELSE image_filename_tar(image_id)
image_path(image_id, native_unzip) == dir_hier_path(image_filename(image_id, native_unzip))
image_path_tar(image_id, native_unzip) ==
    join_dirname(image_path(image_id, native_unzip), image_filename_tar(image_id))

layer_filename_tar(layer_id) == Filename("layer", layer_id, <<"tar">>)
layer_filename(layer_id, native_unzip) ==
    IF ~native_unzip THEN AddSuffix(layer_filename_tar(layer_id), "manual.gz")
    ELSE layer_filename_tar(layer_id)
layer_path(layer_id, native_unzip) == dir_hier_path(layer_filename(layer_id, native_unzip))
layer_path_tar(layer_id, native_unzip) ==
    join_dirname(layer_path(layer_id, native_unzip), layer_filename_tar(layer_id))

\* the file gzip writes for input path p
GzipTarget(p, native_unzip) ==
    [p EXCEPT !.name = AddSuffix(@, IF native_unzip THEN "gz" ELSE "manual.gz")]

\* "gzip -fk p" keeps p, "gzip -fS .manual.gz p" replaces p
GzipOk(files, p, native_unzip) ==
    IF native_unzip THEN files \cup {GzipTarget(p, native_unzip)}
    ELSE (files \ {p}) \cup {GzipTarget(p, native_unzip)}

\* a gzip that fails or is interrupted leaves its input alone and removes the
\* output it was writing; with -f an existing output was unlinked first
GzipFailed(files, p, native_unzip) ==
    {files, files \ {GzipTarget(p, native_unzip)}}

\* "tar cvf p ..." creates or truncates p; a failing tar may already have done so
TarOk(files, p) == files \cup {p}
TarFailed(files, p) == {files, files \cup {p}}

\* os.path.exists
Exists(path, files) == IF path \in files THEN "yes" ELSE "no"

\* the layers of the image, as its manifest.json lists them
LayerIds == <<"layer1", "layer2", "layer3", "layer4">>
Manifest(image_id) == SubSeq(LayerIds, 1, NLayers)

\* what docker reports for the image: its content id and its size in MB
ImageId == "sha"
ImageSizes == {20}
MemoryOverrides == {NoMemory, 100}


\* ------------------------------------------------------------------------
\* input-file entries and the input template
\* ------------------------------------------------------------------------
\* an open name is a directory and a file name
OpenName(dir, fn) == [dir |-> dir, base |-> fn]
basename(open_name) == open_name.base

\* (open_name, contents, flags) becomes (open_name, (basename, contents), flags)
Repack(files) ==
    [i \in 1..Len(files) |->
        <<files[i][1], <<basename(files[i][1]), files[i][2]>>, files[i][3]>>]

\* numbering the template entries from 1 instead of 0
input_template_from1(files) ==
    [file_info |-> [i \in 1..Len(files) |-> [number |-> i, flags |-> files[i][3]]],
     file_ref  |-> [i \in 1..Len(files) |->
                       [file_number |-> i, open_name |-> files[i][1]]]]

\* enumerate(input_files): one file_info and one file_ref per entry
input_template(files) ==
    [file_info |-> [i \in 1..Len(files) |-> [number |-> i - 1, flags |-> files[i][3]]],
     file_ref  |-> [i \in 1..Len(files) |->
                       [file_number |-> i - 1, open_name |-> files[i][1]]]]

\* [f for _,f,_ in input_files]
physical_files(files) == [i \in 1..Len(files) |-> files[i][2]]

\* the option tags of vbox_job.xml: a dict {k: v} gives <k>v</k>, a string s gives <s/>
StrOpt(s) == [isdict |-> FALSE, k |-> s, v |-> 0]
DictOpt(k, v) == [isdict |-> TRUE, k |-> k, v |-> v]
extra_opts(options) ==
    [i \in 1..Len(options) |->
        IF options[i].isdict
        THEN <<"open", options[i].k, "value", options[i].v, "close", options[i].k>>
        ELSE <<"empty", options[i].k>>]

EmptyDict == [k \in {} |-> None]
DictSet(d, key, value) ==
    [k \in DOMAIN d \cup {key} |-> IF k = key THEN value ELSE d[k]]

\* the extra files a caller may pass: (open_name, contents, flags)
ExtraNames == <<"extra1", "extra2", "extra3", "extra4">>
ExtraFile(n) == <<OpenName(<<"shared">>, Filename(ExtraNames[n], "", <<>>)), "bar", <<>>>>
ExtraLists == {[i \in 1..n |-> ExtraFile(i)] : n \in 0..MaxExtra}

\* ------------------------------------------------------------------------
\* error handling
\* ------------------------------------------------------------------------
\* a failed id lookup is always answered by a pull
OnLookupError_always_pull(output) == "pull"

\* lines 84-90: only 'No such image' is answered by a pull, anything else is re-raised
OnLookupError(output) == IF output = "nosuchimage" THEN "pull" ELSE "raise"

\* without the "except CalledProcessError" clause
ExitPath_no_except(exc, wu) ==
    CASE exc = "none" -> [kind |-> "returned", value |-> wu, printed |-> "nothing"]
      [] exc = "kbi"  -> [kind |-> "returned", value |-> None, printed |-> "cleaning up"]
      [] OTHER        -> [kind |-> "raised", value |-> None, printed |-> "nothing"]

\* lines 266-277: what the caller sees for each way of leaving the try body
ExitPath(exc, wu) ==
    CASE exc = "none" -> [kind |-> "returned", value |-> wu, printed |-> "nothing"]
      [] exc = "kbi"  -> [kind |-> "returned", value |-> None, printed |-> "cleaning up"]
      [] exc = "cpe"  -> [kind |-> "returned", value |-> None, printed |-> "e.output"]
      [] OTHER        -> [kind |-> "raised", value |-> None, printed |-> "nothing"]

\* a cleanup that removes nothing
RmRf_keep(dirs, d) == dirs

\* rm -rf d
RmRf(dirs, d) == dirs \ {d}

\* ignoring force_reimport when deciding whether to archive a layer
NeedArchiveLayer_no_force(force_reimport, need_extract, present) ==
    need_extract /\ ~present

\* the existence test of the layer file the wrong way round
NeedArchiveLayer_inverted(force_reimport, need_extract, present) ==
    force_reimport \/ (need_extract /\ present)

\* line 231
NeedArchiveLayer(force_reimport, need_extract, present) ==
    force_reimport \/ (need_extract /\ ~present)

\* line 99
UseCache(force_reimport, present) == ~force_reimport /\ present

\* ------------------------------------------------------------------------
\* the command line of the guest script (strings are sequences of characters)
\* ------------------------------------------------------------------------
Alphabet == {"a", " ", "'", "\"", "$", ";"}

\* str.split(): the maximal runs of non-whitespace characters
RECURSIVE SplitFrom(_, _, _, _)
SplitFrom(s, i, cur, acc) ==
    IF i > Len(s) THEN (IF cur = <<>> THEN acc ELSE Append(acc, cur))
    ELSE IF s[i] = " "
         THEN SplitFrom(s, i + 1, <<>>, IF cur = <<>> THEN acc ELSE Append(acc, cur))
         ELSE SplitFrom(s, i + 1, Append(cur, s[i]), acc)
split(s) == SplitFrom(s, 1, <<>>, <<>>)

\* the characters bash's printf %q protects with a backslash
ShellSpecial == {" ", "'", "\"", "$", ";", "\\"}

RECURSIVE QuoteFrom(_, _, _)
QuoteFrom(s, i, special) ==
    IF i > Len(s) THEN <<>>
    ELSE (IF s[i] \in special THEN <<"\\", s[i]>> ELSE <<s[i]>>)
         \o QuoteFrom(s, i + 1, special)

\* an escaping that forgets the dollar sign
escape_string_no_dollar(s) ==
    IF s = <<>> THEN <<"'", "'">> ELSE QuoteFrom(s, 1, ShellSpecial \ {"$"})

\* escape_string: bash -c 'printf "%q" "$@"' _ s
escape_string(s) ==
    IF s = <<>> THEN <<"'", "'">> ELSE QuoteFrom(s, 1, ShellSpecial)

\* ' '.join(words)
RECURSIVE join(_)
join(words) ==
    IF words = <<>> THEN <<>>
    ELSE IF Len(words) = 1 THEN words[1]
    ELSE words[1] \o <<" ">> \o join(Tail(words))

\* line 134: a str command is split, a list command is taken as it is
Tokens(command) == IF command.isstr THEN split(command.str) ELSE command.toks

\* line 135
CommandLine(command) ==
    LET toks == Tokens(command)
    IN  join([i \in 1..Len(toks) |-> escape_string(toks[i])])

\* index of the first occurrence of c in s at or after i, 0 if there is none
RECURSIVE Find(_, _, _)
Find(s, c, i) ==
    IF i > Len(s) THEN 0 ELSE IF s[i] = c THEN i ELSE Find(s, c, i + 1)

\* How the guest's /bin/sh reads the {command} part of the "docker run" line
\* (line 208) into arguments. A character that the shell acts upon instead of
\* passing it on shows in the result as a marker no token contains.
RECURSIVE ShWords(_, _, _, _, _)
ShWords(s, i, cur, inword, acc) ==
    IF i > Len(s) THEN (IF inword THEN Append(acc, cur) ELSE acc)
    ELSE LET c == s[i]
             close == Find(s, c, i + 1)
         IN  CASE c = "\\" ->
                    IF i + 1 <= Len(s)
                    THEN ShWords(s, i + 2, Append(cur, s[i + 1]), TRUE, acc)
                    ELSE ShWords(s, i + 1, Append(cur, "\\"), TRUE, acc)
               [] c = " " ->
                    ShWords(s, i + 1, <<>>, FALSE, IF inword THEN Append(acc, cur) ELSE acc)
               [] c = "'" ->
                    IF close = 0
                    THEN Append(acc, Append(cur, "<unterminated quote>"))
                    ELSE ShWords(s, close + 1, cur \o SubSeq(s, i + 1, close - 1), TRUE, acc)
               [] c = "\"" ->
                    IF close = 0
                    THEN Append(acc, Append(cur, "<unterminated quote>"))
                    ELSE IF Find(SubSeq(s, i + 1, close - 1), "$", 1) # 0
                    THEN ShWords(s, close + 1, Append(cur, "<expansion>"), TRUE, acc)
                    ELSE ShWords(s, close + 1, cur \o SubSeq(s, i + 1, close - 1), TRUE, acc)
               [] c = "$" ->
                    IF i + 1 <= Len(s) /\ s[i + 1] = "a"
                    THEN ShWords(s, i + 2, Append(cur, "<expansion>"), TRUE, acc)
                    ELSE ShWords(s, i + 1, Append(cur, "$"), TRUE, acc)
               [] c = ";" ->
                    (IF inword THEN Append(acc, cur) ELSE acc) \o << <<"<next command>">> >>
               [] OTHER ->
                    ShWords(s, i + 1, Append(cur, c), TRUE, acc)
ShArgs(line) == ShWords(line, 1, <<>>, FALSE, <<>>)

\* ------------------------------------------------------------------------
\* the state machine of one call
\* ------------------------------------------------------------------------
TryBody == {"mkdtemp", "inspect_id", "pull", "inspect_id_retry", "inspect_size",
            "import", "vbox_job_xml", "command", "sshgrid", "ssh_keygen_server",
            "sshgrid_store", "script", "layers", "layer_tar", "layer_gzip",
            "image_tar", "image_gzip", "template", "create_work"}

Logged(cmd, out) == Append(log, [cmd |-> cmd, out |-> out])

NoTemplate == [file_info |-> <<>>, file_ref |-> <<>>]
NoCommand == [isstr |-> FALSE, str |-> <<>>, toks |-> <<>>]

IdleLoc ==
    [tmpdir |-> <<>>, image_id |-> None, memory |-> NoMemory, need_extract |-> FALSE,
     manifest |-> <<>>, input_files |-> None, vbox_job_xml |-> None,
     create_work_args |-> None, command |-> <<>>, layer_flags |-> <<>>, li |-> 0,
     template |-> NoTemplate, wu |-> None]

IdleArgs ==
    [native_unzip |-> FALSE, force_reimport |-> FALSE, sshgrid_mode |-> FALSE,
     disable_automatic_checkpoints |-> TRUE, appname |-> "boinc2docker",
     memory |-> NoMemory, command |-> NoCommand, input_files |-> None,
     vbox_job_xml |-> None, create_work_args |-> None]

NoReturn == [kind |-> "none", value |-> None, printed |-> "nothing"]

MainIdle ==
    /\ pc = "idle"
    /\ run = 0
    /\ args = IdleArgs
    /\ loc = IdleLoc
    /\ dl = {}
    /\ tmpdirs = {}
    /\ log = <<>>
    /\ pending = "none"
    /\ ret = NoReturn
    /\ submitted = <<>>
    /\ forced_seen = FALSE

HarnessIdle ==
    /\ mc = [imagesize |-> 0, memory |-> NoMemory, verbose |-> FALSE, state |-> "off",
             result |-> 0, message |-> <<>>]
    /\ esc = [command |-> NoCommand, state |-> "off", line |-> <<>>, argv |-> <<>>]

IdleHeap ==
    [arg_input_files |-> <<>>, arg_vbox_job_xml |-> <<>>,
     arg_create_work_args |-> EmptyDict,
     input_files |-> <<>>, vbox_job_xml |-> <<>>, create_work_args |-> EmptyDict]

Init ==
    /\ MainIdle
    /\ HarnessIdle
    /\ \E nu \in BOOLEAN, mem \in MemoryOverrides, share \in BOOLEAN :
          caller = [native_unzip |-> nu, memory |-> mem, share |-> share]
    /\ \E extra \in ExtraLists :
          \* a caller that passes None has no list of extra files
          /\ ~caller.share => extra = <<>>
          /\ heap = [IdleHeap EXCEPT !.arg_input_files = extra]

\* leave the try body with exception exc in flight
Raise(exc) ==
    /\ pc' = "cleanup"
    /\ pending' = exc

\* the command of the calls made in the main specification
RunCommand == [isstr |-> FALSE, str |-> <<>>, toks |-> << <<"a">>, <<"$", "a">> >>]

\* a call: lines 23-74. The caller passes its own list and dict objects or None
Call ==
    /\ pc \in {"idle", "done"}
    /\ run < MaxRuns
    /\ \E fr \in BOOLEAN, sg \in BOOLEAN :
       LET nu == caller.native_unzip
           mem == caller.memory
           share == caller.share
       IN \* the values of this call
          /\ args' = [native_unzip |-> nu, force_reimport |-> fr, sshgrid_mode |-> sg,
                      disable_automatic_checkpoints |-> TRUE, appname |-> "boinc2docker",
                      memory |-> mem, command |-> RunCommand,
                      input_files |-> IF share THEN "arg_input_files" ELSE None,
                      vbox_job_xml |-> IF share THEN "arg_vbox_job_xml" ELSE None,
                      create_work_args |-> IF share THEN "arg_create_work_args" ELSE None]
          /\ loc' = [IdleLoc EXCEPT
                      !.memory = mem,
                      !.input_files = IF share THEN "arg_input_files" ELSE "input_files",
                      !.vbox_job_xml = IF share THEN "arg_vbox_job_xml" ELSE None,
                      !.create_work_args =
                          IF share THEN "arg_create_work_args" ELSE "create_work_args"]
          /\ forced_seen' = (forced_seen \/ fr)
    /\ heap' = [heap EXCEPT !.input_files = <<>>, !.vbox_job_xml = <<>>,
                            !.create_work_args = EmptyDict]
    /\ run' = run + 1
    /\ pc' = "mkdtemp"
    /\ log' = <<>>
    /\ pending' = "none"
    /\ ret' = NoReturn
    /\ submitted' = <<>>
    /\ tmpdirs' = {}   \* what earlier calls left behind is no longer tracked
    /\ UNCHANGED <<caller, dl, mc, esc>>

\* line 78: mkdtemp creates a fresh directory, or raises OSError
Mkdtemp ==
    /\ pc = "mkdtemp"
    /\ \E ok \in BOOLEAN :
          IF ok
          THEN /\ loc' = [loc EXCEPT !.tmpdir = <<"tmp", run>>]
               /\ tmpdirs' = tmpdirs \cup {<<"tmp", run>>}
               /\ pc' = "inspect_id"
               /\ UNCHANGED pending
          ELSE /\ Raise("other")
               /\ UNCHANGED <<loc, tmpdirs>>
    /\ UNCHANGED <<run, caller, args, heap, dl, log, ret, submitted, forced_seen, mc, esc>>

\* lines 81-90: first id lookup; a CalledProcessError is inspected by the handler
InspectId ==
    /\ pc = "inspect_id"
    /\ \E out \in {"ok", "nosuchimage", "fail"} :
          /\ log' = Logged("inspect_id", out)
          /\ IF out = "ok"
             THEN /\ loc' = [loc EXCEPT !.image_id = ImageId]
                  /\ pc' = "inspect_size"
                  /\ UNCHANGED pending
             ELSE IF OnLookupError(out) = "pull"
             THEN /\ pc' = "pull"
                  /\ UNCHANGED <<loc, pending>>
             ELSE /\ Raise("cpe")
                  /\ UNCHANGED loc
    /\ UNCHANGED <<run, caller, args, heap, dl, tmpdirs, ret, submitted, forced_seen, mc,
                   esc>>

\* line 87: docker pull, inside the handler of the failed lookup
Pull ==
    /\ pc = "pull"
    /\ \E out \in {"ok", "fail"} :
          /\ log' = Logged("pull", out)
          /\ IF out = "ok"
             THEN pc' = "inspect_id_retry" /\ UNCHANGED pending
             ELSE Raise("cpe")
    /\ UNCHANGED <<run, caller, args, loc, heap, dl, tmpdirs, ret, submitted, forced_seen,
                   mc, esc>>

\* line 88: the lookup again, still inside the handler: any failure propagates
InspectIdRetry ==
    /\ pc = "inspect_id_retry"
    /\ \E out \in {"ok", "nosuchimage", "fail"} :
          /\ log' = Logged("inspect_id", out)
          /\ IF out = "ok"
             THEN /\ loc' = [loc EXCEPT !.image_id = ImageId]
                  /\ pc' = "inspect_size"
                  /\ UNCHANGED pending
             ELSE /\ Raise("cpe")
                  /\ UNCHANGED loc
    /\ UNCHANGED <<run, caller, args, heap, dl, tmpdirs, ret, submitted, forced_seen, mc,
                   esc>>

\* lines 96-97: image size, memory_check, rsc_memory_bound = memory*1e6
InspectSize ==
    /\ pc = "inspect_size"
    /\ \E out \in {"ok", "fail"}, size \in ImageSizes :
          /\ log' = Logged("inspect_size", out)
          /\ IF out = "ok"
             THEN LET m == memory_check(size, loc.memory)
                  IN  /\ loc' = [loc EXCEPT !.memory = m]
                      /\ heap' = [heap EXCEPT ![loc.create_work_args] =
                                     DictSet(@, "rsc_memory_bound", m * 1000000)]
                      /\ pc' = "import"
                      /\ UNCHANGED pending
             ELSE /\ Raise("cpe")
                  /\ UNCHANGED <<loc, heap>>
    /\ UNCHANGED <<run, caller, args, dl, tmpdirs, ret, submitted, forced_seen, mc, esc>>

\* lines 99-101: the converted image is in the download hierarchy, read its manifest
\* (exists() is evaluated only when force_reimport is false; the log records its answer)
ReadCache ==
    /\ pc = "import"
    /\ UseCache(args.force_reimport, image_path(loc.image_id, args.native_unzip) \in dl)
    /\ log' = Logged("exists_image",
                     Exists(image_path(loc.image_id, args.native_unzip), dl))
    /\ loc' = [loc EXCEPT !.manifest = Manifest(loc.image_id)]
    /\ pc' = "vbox_job_xml"
    /\ UNCHANGED <<run, caller, args, heap, dl, tmpdirs, pending, ret, submitted,
                   forced_seen, mc, esc>>

\* lines 102-106: docker save | tar xf into the scratch directory
Export ==
    /\ pc = "import"
    /\ ~UseCache(args.force_reimport, image_path(loc.image_id, args.native_unzip) \in dl)
    /\ \E out \in {"ok", "fail"} :
          /\ log' = IF args.force_reimport
                     THEN Logged("save", out)
                     ELSE Append(Logged("exists_image",
                                        Exists(image_path(loc.image_id, args.native_unzip), dl)),
                                 [cmd |-> "save", out |-> out])
          /\ IF out = "ok"
             THEN /\ loc' = [loc EXCEPT !.need_extract = TRUE,
                                        !.manifest = Manifest(loc.image_id)]
                  /\ pc' = "vbox_job_xml"
                  /\ UNCHANGED pending
             ELSE /\ loc' = [loc EXCEPT !.need_extract = TRUE]
                  /\ Raise("cpe")
    /\ UNCHANGED <<run, caller, args, heap, dl, tmpdirs, ret, submitted, forced_seen, mc,
                   esc>>

\* lines 110-130: the vbox_job.xml options are appended to the option list, the
\* rendered document is appended to input_files
VboxJobXml ==
    /\ pc = "vbox_job_xml"
    /\ LET vref == IF loc.vbox_job_xml = None THEN "vbox_job_xml" ELSE loc.vbox_job_xml
           opts1 == IF args.disable_automatic_checkpoints
                    THEN Append(heap[vref], StrOpt("disable_automatic_checkpoints"))
                    ELSE heap[vref]
           opts2 == Append(opts1, DictOpt("memory_size_mb", loc.memory))
           contents == [doc |-> "vbox_job", extra_opts |-> extra_opts(opts2)]
           entry == <<OpenName(<<>>, Filename("vbox_job", "", <<"xml">>)), contents, <<>>>>
       IN  /\ loc' = [loc EXCEPT !.vbox_job_xml = vref]
           /\ heap' = [heap EXCEPT ![vref] = opts2,
                                   ![loc.input_files] = Append(@, entry)]
    /\ pc' = "command"
    /\ UNCHANGED <<run, caller, args, dl, tmpdirs, log, pending, ret, submitted,
                   forced_seen, mc, esc>>

\* lines 134-136: escape_string runs bash once per token
EscapeCommand ==
    /\ pc = "command"
    /\ \E out \in {"ok", "fail"} :
          /\ out = "fail" => Tokens(args.command) # <<>>
          /\ log' = IF Tokens(args.command) # <<>> THEN Logged("printf_q", out) ELSE log
          /\ IF out = "ok"
             THEN /\ loc' = [loc EXCEPT !.command = CommandLine(args.command)]
                  /\ pc' = IF args.sshgrid_mode THEN "sshgrid" ELSE "script"
                  /\ UNCHANGED pending
             ELSE /\ Raise("cpe")
                  /\ UNCHANGED loc
    /\ UNCHANGED <<run, caller, args, heap, dl, tmpdirs, ret, submitted, forced_seen, mc,
                   esc>>

\* lines 138-160: the first ssh_keygen (client key pair)
SshKeygenClient ==
    /\ pc = "sshgrid"
    /\ \E out \in {"ok", "fail"} :
          /\ log' = Logged("ssh_keygen", out)
          /\ IF out = "ok"
             THEN pc' = "ssh_keygen_server" /\ UNCHANGED pending
             ELSE Raise("cpe")
    /\ UNCHANGED <<run, caller, args, loc, heap, dl, tmpdirs, ret, submitted, forced_seen,
                   mc, esc>>

\* line 161: the second ssh_keygen; only its private key is kept
SshKeygenServer ==
    /\ pc = "ssh_keygen_server"
    /\ \E out \in {"ok", "fail"} :
          /\ log' = Logged("ssh_keygen", out)
          /\ IF out = "ok"
             THEN pc' = "sshgrid_store" /\ UNCHANGED pending
             ELSE Raise("cpe")
    /\ UNCHANGED <<run, caller, args, loc, heap, dl, tmpdirs, ret, submitted, forced_seen,
                   mc, esc>>

\* lines 163-173: the key row is committed to /sshgrid/keys.db (a store outside the
\* model, like the docker daemon), the two client keys are appended, and the
\* third append reads server_pub, a name bound nowhere: NameError. Lines 175-180
\* (the single-result options) are never reached.
SshgridStore ==
    /\ pc = "sshgrid_store"
    /\ LET id_rsa == <<OpenName(<<"shared">>, Filename("id_rsa", "", <<>>)),
                       "client_priv", <<>>>>
           id_rsa_pub == <<OpenName(<<"shared">>, Filename("id_rsa", "", <<"pub">>)),
                           "client_pub", <<>>>>
       IN  heap' = [heap EXCEPT ![loc.input_files] = Append(Append(@, id_rsa), id_rsa_pub)]
    /\ Raise("other")
    /\ UNCHANGED <<run, caller, args, loc, dl, tmpdirs, log, ret, submitted, forced_seen,
                   mc, esc>>

\* lines 184-221: the guest script is appended, then input_files is rebound to a new
\* list of (open_name, (basename, contents), flags)
Script ==
    /\ pc = "script"
    /\ LET script == [doc |-> "boinc_app", command |-> loc.command]
           entry == <<OpenName(<<"shared">>, Filename("boinc_app", "", <<>>)), script, <<>>>>
           old == Append(heap[loc.input_files], entry)
       IN  heap' = IF loc.input_files = "input_files"
                   THEN [heap EXCEPT !.input_files = Repack(old)]
                   ELSE [heap EXCEPT ![loc.input_files] = old, !.input_files = Repack(old)]
    /\ loc' = [loc EXCEPT !.input_files = "input_files",
                          !.layer_flags = <<"sticky", "no_delete">>
                                          \o (IF args.native_unzip THEN <<"gzip">> ELSE <<>>),
                          !.li = 1]
    /\ pc' = "layers"
    /\ UNCHANGED <<run, caller, args, dl, tmpdirs, log, pending, ret, submitted,
                   forced_seen, mc, esc>>

\* lines 224-231: next layer of the manifest: its entry is appended, then it is
\* archived or skipped
LayerBegin ==
    /\ pc = "layers"
    /\ loc.li <= Len(loc.manifest)
    /\ LET layer_id == loc.manifest[loc.li]
           fn == layer_filename(layer_id, args.native_unzip)
           entry == <<OpenName(<<"shared", "image">>, fn), fn, loc.layer_flags>>
       IN  /\ heap' = [heap EXCEPT ![loc.input_files] = Append(@, entry)]
           /\ IF NeedArchiveLayer(args.force_reimport, loc.need_extract,
                                  layer_path(layer_id, args.native_unzip) \in dl)
              THEN pc' = "layer_tar" /\ UNCHANGED loc
              ELSE pc' = "layers" /\ loc' = [loc EXCEPT !.li = @ + 1]
    /\ UNCHANGED <<run, caller, args, dl, tmpdirs, log, pending, ret, submitted,
                   forced_seen, mc, esc>>

\* line 233: tar cvf {layer_path_tar}
LayerTar ==
    /\ pc = "layer_tar"
    /\ LET p == layer_path_tar(loc.manifest[loc.li], args.native_unzip)
       IN  \E out \in {"ok", "fail", "interrupted"} :
              /\ log' = Logged("tar", out)
              /\ IF out = "ok"
                 THEN /\ dl' = TarOk(dl, p)
                      /\ pc' = "layer_gzip"
                      /\ UNCHANGED pending
                 ELSE /\ dl' \in TarFailed(dl, p)
                      /\ Raise(IF out = "fail" THEN "cpe" ELSE "kbi")
    /\ UNCHANGED <<run, caller, args, loc, heap, tmpdirs, ret, submitted, forced_seen,
                   mc, esc>>

\* lines 234-237: gzip -fk or gzip -fS .manual.gz
LayerGzip ==
    /\ pc = "layer_gzip"
    /\ LET p == layer_path_tar(loc.manifest[loc.li], args.native_unzip)
       IN  \E out \in {"ok", "fail", "interrupted"} :
              /\ log' = Logged("gzip", out)
              /\ IF out = "ok"
                 THEN /\ dl' = GzipOk(dl, p, args.native_unzip)
                      /\ loc' = [loc EXCEPT !.li = @ + 1]
                      /\ pc' = "layers"
                      /\ UNCHANGED pending
                 ELSE /\ dl' \in GzipFailed(dl, p, args.native_unzip)
                      /\ Raise(IF out = "fail" THEN "cpe" ELSE "kbi")
                      /\ UNCHANGED loc
    /\ UNCHANGED <<run, caller, args, heap, tmpdirs, ret, submitted, forced_seen, mc, esc>>

\* lines 241-242: after the last layer the image entry is appended
ImageBegin ==
    /\ pc = "layers"
    /\ loc.li > Len(loc.manifest)
    /\ LET fn == image_filename(loc.image_id, args.native_unzip)
           entry == <<OpenName(<<"shared", "image">>, fn), fn, loc.layer_flags>>
       IN  heap' = [heap EXCEPT ![loc.input_files] = Append(@, entry)]
    /\ pc' = IF args.force_reimport \/ loc.need_extract THEN "image_tar" ELSE "template"
    /\ UNCHANGED <<run, caller, args, loc, dl, tmpdirs, log, pending, ret, submitted,
                   forced_seen, mc, esc>>

\* line 244: tar cvf {image_path_tar}
ImageTar ==
    /\ pc = "image_tar"
    /\ LET p == image_path_tar(loc.image_id, args.native_unzip)
       IN  \E out \in {"ok", "fail", "interrupted"} :
              /\ log' = Logged("tar", out)
              /\ IF out = "ok"
                 THEN /\ dl' = TarOk(dl, p)
                      /\ pc' = "image_gzip"
                      /\ UNCHANGED pending
                 ELSE /\ dl' \in TarFailed(dl, p)
                      /\ Raise(IF out = "fail" THEN "cpe" ELSE "kbi")
    /\ UNCHANGED <<run, caller, args, loc, heap, tmpdirs, ret, submitted, forced_seen,
                   mc, esc>>

\* lines 245-248
ImageGzip ==
    /\ pc = "image_gzip"
    /\ LET p == image_path_tar(loc.image_id, args.native_unzip)
       IN  \E out \in {"ok", "fail", "interrupted"} :
              /\ log' = Logged("gzip", out)
              /\ IF out = "ok"
                 THEN /\ dl' = GzipOk(dl, p, args.native_unzip)
                      /\ pc' = "template"
                      /\ UNCHANGED pending
                 ELSE /\ dl' \in GzipFailed(dl, p, args.native_unzip)
                      /\ Raise(IF out = "fail" THEN "cpe" ELSE "kbi")
    /\ UNCHANGED <<run, caller, args, loc, heap, tmpdirs, ret, submitted, forced_seen,
                   mc, esc>>

\* lines 250-265: the input template is generated from input_files and written to
\* the scratch directory; its path becomes the wu_template option
Template ==
    /\ pc = "template"
    /\ loc' = [loc EXCEPT !.template = input_template(heap[loc.input_files])]
    /\ heap' = [heap EXCEPT ![loc.create_work_args] =
                   DictSet(@, "wu_template", [dir |-> loc.tmpdir, name |-> "boinc2docker_in"])]
    /\ pc' = "create_work"
    /\ UNCHANGED <<run, caller, args, dl, tmpdirs, log, pending, ret, submitted,
                   forced_seen, mc, esc>>

\* line 266: create_work(appname, create_work_args, physical files)
CreateWork ==
    /\ pc = "create_work"
    /\ submitted' = Append(submitted,
                           [appname |-> args.appname,
                            create_work_args |-> heap[loc.create_work_args],
                            files |-> physical_files(heap[loc.input_files])])
    /\ \E out \in {"ok", "fail"} :
          /\ log' = Logged("create_work", out)
          /\ IF out = "ok"
             THEN /\ loc' = [loc EXCEPT !.wu = "wu"]
                  /\ pc' = "cleanup"
                  /\ UNCHANGED pending
             ELSE /\ Raise("cpe")
                  /\ UNCHANGED loc
    /\ UNCHANGED <<run, caller, args, heap, dl, tmpdirs, ret, forced_seen, mc, esc>>

\* the user interrupts the call somewhere in the try body
KeyboardInterrupt ==
    /\ pc \in TryBody
    /\ Raise("kbi")
    /\ UNCHANGED <<run, caller, args, loc, heap, dl, tmpdirs, log, ret, submitted,
                   forced_seen, mc, esc>>

\* lines 268-277: the except clauses, then the finally block: "rm -rf {tmpdir}" with
\* every error of it swallowed (an unbound tmpdir makes fmt raise before rm is run)
Cleanup ==
    /\ pc = "cleanup"
    /\ IF loc.tmpdir = <<>>
       THEN UNCHANGED <<tmpdirs, log>>
       ELSE \E out \in {"ok", "fail"} :
               /\ log' = Logged("rm", out)
               /\ tmpdirs' = IF out = "ok" THEN RmRf(tmpdirs, loc.tmpdir) ELSE tmpdirs
    /\ ret' = ExitPath(pending, loc.wu)
    /\ pc' = "done"
    /\ UNCHANGED <<run, caller, args, loc, heap, dl, pending, submitted, forced_seen,
                   mc, esc>>

Next ==
    \/ Call
    \/ Mkdtemp
    \/ InspectId
    \/ Pull
    \/ InspectIdRetry
    \/ InspectSize
    \/ ReadCache
    \/ Export
    \/ VboxJobXml
    \/ EscapeCommand
    \/ SshKeygenClient
    \/ SshKeygenServer
    \/ SshgridStore
    \/ Script
    \/ LayerBegin
    \/ LayerTar
    \/ LayerGzip
    \/ ImageBegin
    \/ ImageTar
    \/ ImageGzip
    \/ Template
    \/ CreateWork
    \/ KeyboardInterrupt
    \/ Cleanup

Spec == Init /\ [][Next]_vars

\* ------------------------------------------------------------------------
\* memory_check on its own: every image size and override within the bounds
\* ------------------------------------------------------------------------
MemoryInputs == {NoMemory} \cup ((500 - MemSpan)..(500 + MemSpan))

InitMemory ==
    /\ MainIdle
    /\ caller = [native_unzip |-> FALSE, memory |-> NoMemory, share |-> FALSE]
    /\ heap = IdleHeap
    /\ esc = [command |-> NoCommand, state |-> "off", line |-> <<>>, argv |-> <<>>]
    /\ \E size \in 0..MaxImageSize, m \in MemoryInputs, v \in BOOLEAN :
          mc = [imagesize |-> size, memory |-> m, verbose |-> v, state |-> "ready",
                result |-> 0, message |-> <<>>]

\* lines 292-307
MemoryCheck ==
    /\ mc.state = "ready"
    /\ mc' = [mc EXCEPT !.state = "returned",
                        !.result = memory_check(mc.imagesize, mc.memory),
                        !.message = IF mc.verbose
                                    THEN memory_check_message(mc.imagesize, mc.memory)
                                    ELSE <<>>]
    /\ UNCHANGED <<pc, run, caller, args, loc, heap, dl, tmpdirs, log, pending, ret,
                   submitted, forced_seen, esc>>

SpecMemory == InitMemory /\ [][MemoryCheck]_vars

\* ------------------------------------------------------------------------
\* the command line on its own: every command within the bounds is escaped
\* into the script line, which the guest shell then reads
\* ------------------------------------------------------------------------
BoundedSeq(S, n) == UNION {[1..k -> S] : k \in 0..n}

Commands ==
    {[isstr |-> TRUE, str |-> str, toks |-> <<>>] : str \in BoundedSeq(Alphabet, MaxStrLen)}
    \cup {[isstr |-> FALSE, str |-> <<>>, toks |-> toks] :
             toks \in BoundedSeq(BoundedSeq(Alphabet, MaxTokLen), MaxToks)}

InitEscape ==
    /\ MainIdle
    /\ caller = [native_unzip |-> FALSE, memory |-> NoMemory, share |-> FALSE]
    /\ heap = IdleHeap
    /\ mc = [imagesize |-> 0, memory |-> NoMemory, verbose |-> FALSE, state |-> "off",
             result |-> 0, message |-> <<>>]
    /\ \E c \in Commands :
          esc = [command |-> c, state |-> "ready", line |-> <<>>, argv |-> <<>>]

\* lines 134-135 and the {command} slot of line 208
BuildCommandLine ==
    /\ esc.state = "ready"
    /\ esc' = [esc EXCEPT !.state = "scripted", !.line = CommandLine(esc.command)]
    /\ UNCHANGED <<pc, run, caller, args, loc, heap, dl, tmpdirs, log, pending, ret,
                   submitted, forced_seen, mc>>

\* the guest runs the script: /bin/sh splits the docker run line into arguments
GuestShell ==
    /\ esc.state = "scripted"
    /\ esc' = [esc EXCEPT !.state = "run", !.argv = ShArgs(esc.line)]
    /\ UNCHANGED <<pc, run, caller, args, loc, heap, dl, tmpdirs, log, pending, ret,
                   submitted, forced_seen, mc>>

SpecEscape == InitEscape /\ [][BuildCommandLine \/ GuestShell]_vars

\* ------------------------------------------------------------------------
\* properties
\* ------------------------------------------------------------------------
LogIdx(cmd) == {k \in 1..Len(log) : log[k].cmd = cmd}
Failed(k) == log[k].out \in {"fail", "nosuchimage", "interrupted"}
Count(cmd, out) == Cardinality({k \in LogIdx(cmd) : log[k].out = out})
FinalFiles == heap[loc.input_files]

\* C1: in every run that reaches submission, the template has one file_ref and one
\* file_info per entry of the final input-file sequence, the i-th of each is numbered
\* i (from 0), the i-th file_ref carries the i-th entry's open name, and the i-th
\* physical file given to create_work is the second component of the i-th entry.
C1_TemplateMatchesInputFiles ==
    submitted # <<>> =>
        LET n == Len(FinalFiles)
            t == loc.template
        IN  /\ Len(t.file_ref) = n
            /\ Len(t.file_info) = n
            /\ Len(submitted[1].files) = n
            /\ \A i \in 1..n :
                  /\ t.file_ref[i].file_number = i - 1
                  /\ t.file_ref[i].open_name = FinalFiles[i][1]
                  /\ t.file_info[i].number = i - 1
                  /\ submitted[1].files[i] = FinalFiles[i][2]

\* C1 witness: a native_unzip run with a caller's extra file has submitted
C1_Witness ==
    /\ submitted # <<>>
    /\ args.native_unzip
    /\ caller.share
    /\ Len(FinalFiles) >= NLayers + 4
    /\ loc.template.file_ref[Len(FinalFiles)].file_number = Len(FinalFiles) - 1

\* C2 as stated: once a call has ended, its scratch directory is gone
C2_ScratchAlwaysRemoved ==
    pc = "done" => loc.tmpdir \notin tmpdirs

\* C2 amended: once a call that created a scratch directory has ended, "rm -rf" of
\* that directory has been issued exactly once, as the last command of the call,
\* whatever the exit path; the directory is gone whenever that rm succeeded.
C2_CleanupAttempted ==
    (pc = "done" /\ loc.tmpdir # <<>>) =>
        /\ Cardinality(LogIdx("rm")) = 1
        /\ log[Len(log)].cmd = "rm"
        /\ (log[Len(log)].out = "ok" => loc.tmpdir \notin tmpdirs)

\* C2 witness: a call aborted by a failing command has ended with its directory removed
C2_Witness ==
    /\ pc = "done"
    /\ pending = "cpe"
    /\ loc.tmpdir # <<>>
    /\ loc.tmpdir \notin tmpdirs

C4_PullOnceAfterNoSuchImage ==
    LET pulls == LogIdx("pull")
        lookups == LogIdx("inspect_id")
        Fatal(k) == \/ log[k].cmd = "pull" /\ Failed(k)
                    \/ log[k].cmd = "inspect_id" /\ Failed(k)
                       /\ ~(k = 1 /\ log[k].out = "nosuchimage")
    IN  /\ Cardinality(pulls) <= 1
        /\ Cardinality(lookups) <= 2
        /\ \A k \in pulls : k = 2 /\ log[1] = [cmd |-> "inspect_id", out |-> "nosuchimage"]
        /\ \A k \in lookups : k = 1 \/ (k = 3 /\ log[2] = [cmd |-> "pull", out |-> "ok"])
        /\ \A k \in pulls :
              log[k].out = "ok" =>
                  /\ Len(log) > k =>
                        \/ log[k + 1].cmd = "inspect_id"
                        \/ log[k + 1].cmd = "rm" /\ pending = "kbi"
                  /\ pc \notin {"inspect_id_retry", "cleanup", "done"} => 3 \in lookups
        /\ \A k \in 1..Len(log) :
              Fatal(k) => /\ \A j \in (k + 1)..Len(log) : log[j].cmd = "rm"
                          /\ submitted = <<>>
                          /\ pc \in {"cleanup", "done"}

\* C4 witness: a run that pulled the image, looked it up again and went on to submit
C4_Witness ==
    /\ pc = "done"
    /\ Len(log) >= 3
    /\ log[2] = [cmd |-> "pull", out |-> "ok"]
    /\ log[3] = [cmd |-> "inspect_id", out |-> "ok"]
    /\ ret.value = "wu"

\* the external commands of the try body
BodyCommands == {"inspect_id", "pull", "inspect_size", "save", "printf_q", "ssh_keygen",
                 "tar", "gzip"}
NonZeroExit(k) == log[k].cmd \in BodyCommands /\ log[k].out \in {"fail", "nosuchimage"}

HasOpenName(files, dir, fn) ==
    \E i \in 1..Len(files) : files[i][1] = OpenName(dir, fn)
OptionIs(d, key, value) == key \in DOMAIN d /\ d[key] = value

\* C6: an sshgrid run in which every external command succeeds submits a work unit
\* with max_total_results = max_success_results = max_error_results =
\* target_nresults = 1 and with the input files shared/id_rsa, shared/id_rsa.pub and
\* shared/authorized_keys.
C6_SshgridSubmitsSingleResult ==
    (/\ pc = "done"
     /\ args.sshgrid_mode
     /\ loc.tmpdir # <<>>
     /\ pending # "kbi"
     /\ \A k \in 1..Len(log) : ~Failed(k)) =>
        /\ Len(submitted) = 1
        /\ OptionIs(submitted[1].create_work_args, "max_total_results", 1)
        /\ OptionIs(submitted[1].create_work_args, "max_success_results", 1)
        /\ OptionIs(submitted[1].create_work_args, "max_error_results", 1)
        /\ OptionIs(submitted[1].create_work_args, "target_nresults", 1)
        /\ HasOpenName(FinalFiles, <<"shared">>, Filename("id_rsa", "", <<>>))
        /\ HasOpenName(FinalFiles, <<"shared">>, Filename("id_rsa", "", <<"pub">>))
        /\ HasOpenName(FinalFiles, <<"shared">>, Filename("authorized_keys", "", <<>>))

CacheHit == \E k \in LogIdx("exists_image") : log[k].out = "yes"
Archiving == {"layers", "layer_tar", "layer_gzip", "image_tar", "image_gzip",
              "template", "create_work"}
\* archives completed when the packaging has got as far as pc
ArchivesDue ==
    CASE pc \in {"layers", "layer_tar", "layer_gzip"} -> loc.li - 1
      [] pc \in {"image_tar", "image_gzip"} -> Len(loc.manifest)
      [] OTHER -> Len(loc.manifest) + 1

\* C7: a run that finds the converted image file in the download hierarchy, with
\* force_reimport false, issues no docker save, no tar and no gzip, and if it
\* submits, the work unit references every layer of the manifest and the image
\* file. A run with force_reimport true exports the image and archives (tar, then
\* gzip) every layer and the image metadata, whatever files already exist.
C7_CacheSkipsAndForceRedoes ==
    /\ CacheHit =>
          /\ ~args.force_reimport
          /\ LogIdx("save") \cup LogIdx("tar") \cup LogIdx("gzip") = {}
          /\ submitted # <<>> =>
                /\ \A l \in 1..NLayers :
                      \E i \in 1..Len(FinalFiles) :
                         /\ FinalFiles[i][1] =
                               OpenName(<<"shared", "image">>,
                                        layer_filename(LayerIds[l], args.native_unzip))
                         /\ submitted[1].files[i] =
                               layer_filename(LayerIds[l], args.native_unzip)
                /\ \E i \in 1..Len(FinalFiles) :
                      /\ FinalFiles[i][1] =
                            OpenName(<<"shared", "image">>,
                                     image_filename(ImageId, args.native_unzip))
                      /\ submitted[1].files[i] = image_filename(ImageId, args.native_unzip)
    /\ (args.force_reimport /\ (pc \in Archiving \/ submitted # <<>>)) =>
          /\ Count("save", "ok") = 1
          /\ Count("tar", "ok") >= ArchivesDue
          /\ Count("gzip", "ok") = ArchivesDue
          /\ Len(loc.manifest) = NLayers

\* C7 witness: a run found the converted image, issued no export and no archiving,
\* and returned the work unit it submitted
C7_Witness ==
    /\ CacheHit
    /\ ~args.force_reimport
    /\ pc = "done"
    /\ ret.value = "wu"
    /\ LogIdx("save") \cup LogIdx("tar") \cup LogIdx("gzip") = {}

\* the other case of C7: a forced run has archived the first layer again although
\* its converted file was already there
C7_ForcedWitness ==
    /\ args.force_reimport
    /\ ~args.native_unzip
    /\ pc = "layer_gzip"
    /\ loc.li = 1
    /\ layer_path(LayerIds[1], FALSE) \in dl
    /\ Count("tar", "ok") = 1

\* C8: every token of the command reaches the docker run line of the guest script
\* as one shell argument equal to the token: a str command is split on whitespace,
\* a list command keeps its tokens, and what the shell reads back from the escaped,
\* space-joined line is the sequence of original tokens.
C8_TokensRoundTrip ==
    esc.state = "run" => esc.argv = Tokens(esc.command)

\* C8 witness: a list token made of a metacharacter, and a str command holding
\* "$a", came back literally
C8_Witness ==
    /\ esc.state = "run"
    /\ \/ /\ ~esc.command.isstr
          /\ Len(esc.command.toks) = 2
          /\ esc.command.toks[1] = <<" ">>
          /\ esc.command.toks[2] = <<";">>
          /\ esc.argv = << <<" ">>, <<";">> >>
       \/ /\ esc.command.isstr
          /\ esc.command.str = <<"$", "a", " ">>
          /\ esc.argv = << <<"$", "a">> >>

LayersPresent ==
    \A l \in 1..NLayers : layer_path(LayerIds[l], caller.native_unzip) \in dl
ImagePresent == image_path(ImageId, caller.native_unzip) \in dl

\* C9 as stated: whenever the converted image file exists, every layer file of its
\* manifest exists too
C9_ImageImpliesLayers ==
    ImagePresent => LayersPresent

\* C9 amended: as long as no run has set force_reimport, whenever the converted
\* image file exists every layer file of its manifest exists too, so a cache-hit
\* run submits only layer files that are present. (A forced reimport rewrites the
\* layer files in place while the image file of the earlier import remains.)
C9_ImageImpliesLayersUnforced ==
    ~forced_seen =>
        /\ ImagePresent => LayersPresent
        /\ (CacheHit /\ submitted # <<>>) => LayersPresent

\* C9 witness: with no forced run so far, a second run hit the cache and submitted
C9_Witness ==
    /\ ~forced_seen
    /\ run = 2
    /\ CacheHit
    /\ submitted # <<>>
    /\ ImagePresent
    /\ LayersPresent

\* C10: no step of a call changes the list and dict objects the caller passed as
\* input_files, vbox_job_xml and create_work_args
C10_ArgumentsUnchanged ==
    [][/\ heap'.arg_input_files = heap.arg_input_files
       /\ heap'.arg_vbox_job_xml = heap.arg_vbox_job_xml
       /\ heap'.arg_create_work_args = heap.arg_create_work_args]_vars

====
